---- MODULE Spec2Model ----
(***************************************************************************)
(* CurrentStateMonitor (moveit_ros/planning/planning_scene_monitor):       *)
(* a cache of the robot's joint values (robot_state_) and of the time of   *)
(* each joint's last update (joint_time_), fed by jointStateCallback and   *)
(* tfCallback and read by the query and wait operations, all serialised by *)
(* state_update_lock_.                                                     *)
(*                                                                         *)
(* Units: positions are integers in units of error_ (the clamp tolerance), *)
(* times are integers, ros::Time() (zero) is 0.                            *)
(***************************************************************************)
EXTENDS Integers, Sequences, FiniteSets, TLC

\* ---------------------------------------------------------------- bounds
MaxTime == 2        \* stamps range over 0..MaxTime, the ROS clock over 1..MaxTime
MaxLen == 2         \* longest joint-state message

Times == 0..MaxTime

\* ------------------------------------------------- the robot model (input)
\* "A": revolute, bounded; "B": revolute, continuous; "M": multi-DOF
\* (planar/floating).  "X" is a name the model does not know.
JointModels == {"A", "B", "M"}
MessageNames == JointModels \cup {"X"}

getVariableCount(jm) == CASE jm \in {"A", "B"} -> 1
                          [] jm = "M" -> 3
                          [] OTHER -> 0

isContinuous(jm) == jm = "B"

min_position_ == 0
max_position_ == 1

\* tolerance of the near-bound clamp
error_ == 1

\* reported positions: from just below the lower tolerance band to just
\* above the upper one
LowPos == min_position_ - error_ - 1
HighPos == max_position_ + error_ + 1
PosValues == LowPos..HighPos

\* threshold of a 'meaningful' change of a multi-DOF joint
DistThreshold == 1

\* values of the multi-DOF joint: the default, one within the threshold of
\* it and one beyond
PoseValues == 0..(DistThreshold + 1)

getActiveJointModels == <<"A", "B", "M">>
getMultiDOFJointModels == <<"M">>
SingleVarJoints == {jm \in JointModels : getVariableCount(jm) = 1}

GroupNames == {"", "arm", "a", "b", "base", "nogroup"}

\* getJointModelGroup(group)->getActiveJointModels(); <<"null">> when the
\* model has no such group
getJointModelGroup(group) == CASE group = "arm" -> <<"A", "B">>
                               [] group = "a" -> <<"A">>
                               [] group = "b" -> <<"B">>
                               [] group = "base" -> <<"M">>
                               [] OTHER -> <<"null">>

\* ------------------------------------------------------------------ state
\* joint_time_.end(): the joint has no entry in joint_time_
NoEntry == -1

Topics == {"", "joint_states"}

VARIABLES
  now,                     \* ros::Time::now()
  state_monitor_started_,
  joint_state_subscriber_, \* the subscribed topic, "" when not subscribed
  tf_connection_,          \* TRUE when the TF listener is registered
  last_call,               \* the last call of startStateMonitor or
                           \* stopStateMonitor; flip changes at every call
  joint_time_,             \* joint -> time of last update, or NoEntry
  robot_state_,            \* joint -> cached position (pose for "M")
  update_callbacks_,       \* sequence of registered callbacks
  state_update_lock_,      \* "free" or the thread that holds the mutex
  \* thread "js": jointStateCallback; js_left is n - i, the entries the loop
  \* has still to read; js_jm and js_pos are the joint and the position of the
  \* entry it has just read
  js_pc, js_left, js_stamp, js_jm, js_pos, js_update, js_k,
  js_calls,                \* the callbacks this run has invoked, each with
                           \* the stamp of the message it was given
  \* thread "tf": tfCallback; tf_ok, tf_time and tf_new are the outcome of
  \* the lookup it has just made
  tf_pc, tf_i, tf_update, tf_changes, tf_k,
  tf_ok, tf_time, tf_new,
  tf_calls,                \* as js_calls
  \* thread "q": a caller of getCurrentStateAndTime; q_seen is the joint_time_
  \* that was current when q_state was copied
  q_pc, q_group, q_state, q_time, q_seen,
  \* thread "w": a caller of waitForCurrentState
  wall,                    \* ros::WallTime::now()
  w_pc, w_t, w_timeout, w_start, w_elapsed,
  w_deadline,              \* wall time at which wait_for gives up
  w_notified,              \* notify_all has signalled the blocked waiter
  w_result,
  w_oldest,                \* getCurrentStateTimeHelper() when the call returned
  w_qualified              \* while the waiter was blocked and its timeout had
                           \* not elapsed, an ingestion released the lock
                           \* with getCurrentStateTimeHelper() >= t

jsVars == <<js_pc, js_left, js_stamp, js_jm, js_pos, js_update, js_k, js_calls>>
tfVars == <<tf_pc, tf_i, tf_update, tf_changes, tf_k, tf_ok, tf_time, tf_new,
            tf_calls>>
lifeVars == <<state_monitor_started_, joint_state_subscriber_, tf_connection_,
              last_call>>
dataVars == <<joint_time_, robot_state_>>
qVars == <<q_pc, q_group, q_state, q_time, q_seen>>
wCore == <<w_pc, w_t, w_timeout, w_start, w_elapsed, w_deadline, w_result,
           w_oldest>>
wVars == <<wCore, w_notified, w_qualified>>
vars == <<now, wall, lifeVars, dataVars, update_callbacks_, state_update_lock_,
          jsVars, tfVars, qVars, wVars>>

Min(a, b) == IF a < b THEN a ELSE b
Abs(a) == IF a < 0 THEN 0 - a ELSE a

\* --------------------------------------------------------------- queries
\* the active joints a query ranges over; <<"null">> for an unknown group
ActiveJointsOf(group) ==
  IF group = "" THEN getActiveJointModels ELSE getJointModelGroup(group)

\* a loop that also takes the zero (static) stamps into the minimum
RECURSIVE OldestStateTimeLoop_WithZero(_, _, _)
OldestStateTimeLoop_WithZero(joints, i, oldest_state_time) ==
  IF i > Len(joints) THEN oldest_state_time
  ELSE LET it == joint_time_[joints[i]] IN
       IF it = NoEntry THEN 0
       ELSE OldestStateTimeLoop_WithZero(joints, i + 1,
                                         Min(oldest_state_time, it))

\* a loop that starts from the first joint's stamp instead of the clock
RECURSIVE OldestStateTimeLoop_NoClock(_, _, _)
OldestStateTimeLoop_NoClock(joints, i, oldest_state_time) ==
  IF i > Len(joints) THEN oldest_state_time
  ELSE LET it == joint_time_[joints[i]] IN
       IF it = NoEntry THEN 0
       ELSE IF it # 0
            THEN OldestStateTimeLoop_NoClock(joints, i + 1,
                   IF i = 1 THEN it ELSE Min(oldest_state_time, it))
            ELSE OldestStateTimeLoop_NoClock(joints, i + 1, oldest_state_time)

RECURSIVE OldestStateTimeLoop(_, _, _)
OldestStateTimeLoop(joints, i, oldest_state_time) ==
  IF i > Len(joints) THEN oldest_state_time
  ELSE LET it == joint_time_[joints[i]] IN
       IF it = NoEntry THEN 0
       ELSE IF it # 0
            THEN OldestStateTimeLoop(joints, i + 1, Min(oldest_state_time, it))
            ELSE OldestStateTimeLoop(joints, i + 1, oldest_state_time)

getCurrentStateTimeHelper(group) ==
  IF ActiveJointsOf(group) = <<"null">> THEN 0
  ELSE OldestStateTimeLoop(ActiveJointsOf(group), 1, now)

\* the loop of haveCompleteStateHelper; collect is TRUE when the caller
\* passed a list (missing_joints # nullptr).  Result: [ret, missing].
\* a loop that takes an entry exactly at the allowed time as too old
RECURSIVE CompleteLoop_Strict(_, _, _, _, _)
CompleteLoop_Strict(joints, i, oldest_allowed_update_time, collect, missing_joints) ==
  IF i > Len(joints)
  THEN [ret |-> (~collect) \/ missing_joints = <<>>, missing |-> missing_joints]
  ELSE LET it == joint_time_[joints[i]] IN
       IF it # NoEntry /\ it > oldest_allowed_update_time
       THEN CompleteLoop_Strict(joints, i + 1, oldest_allowed_update_time,
                                collect, missing_joints)
       ELSE IF collect
            THEN CompleteLoop_Strict(joints, i + 1, oldest_allowed_update_time,
                                     collect, Append(missing_joints, joints[i]))
            ELSE [ret |-> FALSE, missing |-> missing_joints]

RECURSIVE CompleteLoop(_, _, _, _, _)
CompleteLoop(joints, i, oldest_allowed_update_time, collect, missing_joints) ==
  IF i > Len(joints)
  THEN [ret |-> (~collect) \/ missing_joints = <<>>, missing |-> missing_joints]
  ELSE LET it == joint_time_[joints[i]] IN
       IF it # NoEntry /\ ~(it < oldest_allowed_update_time)
       THEN CompleteLoop(joints, i + 1, oldest_allowed_update_time, collect,
                         missing_joints)
       ELSE IF collect
            THEN CompleteLoop(joints, i + 1, oldest_allowed_update_time, collect,
                              Append(missing_joints, joints[i]))
            ELSE [ret |-> FALSE, missing |-> missing_joints]

haveCompleteStateHelper(oldest_allowed_update_time, collect, missing_joints, group) ==
  IF ActiveJointsOf(group) = <<"null">>
  THEN [ret |-> FALSE,
        missing |-> IF collect THEN getActiveJointModels ELSE missing_joints]
  ELSE CompleteLoop(ActiveJointsOf(group), 1, oldest_allowed_update_time,
                    collect, missing_joints)

\* ------------------------------------------- jointStateCallback, per entry
\* joint_time_[jm]: std::map::operator[] inserts ros::Time() for a new key
JointTimeAt(jt, jm) == IF jt[jm] = NoEntry THEN [jt EXCEPT ![jm] = 0] ELSE jt

\* a reset that forgets only the reported joint
UpdateJointTime_OwnEntryOnly(jt, jm, stamp) ==
  [JointTimeAt(jt, jm) EXCEPT ![jm] = stamp]

\* lines 345-356: the time stamp of one accepted entry
UpdateJointTime(jt, jm, stamp) ==
  IF JointTimeAt(jt, jm)[jm] < stamp
  THEN [JointTimeAt(jt, jm) EXCEPT ![jm] = stamp]
  ELSE [j \in DOMAIN jt |-> IF j = jm THEN stamp ELSE NoEntry]

\* no clamp at all
ClampNearBounds_Off(position) == position

\* a clamp that pulls every out-of-bounds value to the nearest bound
ClampNearBounds_Always(position) ==
  IF position < min_position_ THEN min_position_
  ELSE IF position > max_position_ THEN max_position_ ELSE position

\* lines 368-376: the near-bound clamp of a bounded joint
ClampNearBounds(position) ==
  IF position < min_position_ /\ position >= min_position_ - error_
  THEN min_position_
  ELSE IF position > max_position_ /\ position <= max_position_ + error_
       THEN max_position_
       ELSE position

\* lines 358-377: the position of one accepted entry
CommitPosition(rs, jm, position) ==
  IF rs[jm] # position
  THEN IF isContinuous(jm)
       THEN [rs EXCEPT ![jm] = position]
       ELSE [rs EXCEPT ![jm] = ClampNearBounds(position)]
  ELSE rs

\* ------------------------------------------------------------------ Init
\* the state after construction (lines 54-65): not started, default values
Init ==
  /\ now \in 1..MaxTime
  /\ wall = 0
  /\ state_monitor_started_ = FALSE
  /\ joint_state_subscriber_ = ""
  /\ tf_connection_ = FALSE
  /\ last_call = [op |-> "none", flip |-> FALSE]
  /\ joint_time_ = [j \in {"A", "B", "M"} |-> NoEntry]
  /\ robot_state_ = [j \in {"A", "B", "M"} |-> 0]
  /\ update_callbacks_ = <<>>
  /\ state_update_lock_ = "free"
  /\ js_pc = "idle" /\ js_left = 0 /\ js_stamp = 0
  /\ js_jm = "null" /\ js_pos = 0 /\ js_update = FALSE /\ js_k = 0
  /\ js_calls = <<>>
  /\ tf_pc = "idle" /\ tf_i = 0 /\ tf_update = FALSE /\ tf_changes = FALSE
  /\ tf_k = 0
  /\ tf_ok = FALSE /\ tf_time = 0 /\ tf_new = 0 /\ tf_calls = <<>>
  /\ q_pc = "idle" /\ q_group = "" /\ q_state = robot_state_ /\ q_time = 0
  /\ q_seen = joint_time_
  /\ w_pc = "idle" /\ w_t = 0 /\ w_timeout = 0 /\ w_start = 0 /\ w_elapsed = 0
  /\ w_deadline = 0 /\ w_notified = FALSE /\ w_result = FALSE
  /\ w_qualified = FALSE /\ w_oldest = 0

\* ----------------------------------------------------------------- clocks
TickNow ==
  /\ now < MaxTime
  /\ now' = now + 1
  /\ UNCHANGED <<wall, lifeVars, dataVars, update_callbacks_,
                 state_update_lock_, jsVars, tfVars, qVars, wVars>>

\* -------------------------------------------------------------- lifecycle
\* a start that clears joint_time_ before it tests state_monitor_started_
startStateMonitor_ClearAlways(joint_states_topic) ==
  /\ last_call' = [op |-> "start", flip |-> ~last_call.flip]
  /\ joint_time_' = [j \in DOMAIN joint_time_ |-> NoEntry]
  /\ IF ~state_monitor_started_
     THEN /\ joint_state_subscriber_' =
               IF joint_states_topic = "" THEN joint_state_subscriber_
               ELSE joint_states_topic
          /\ tf_connection_' = (getMultiDOFJointModels # <<>>)
          /\ state_monitor_started_' = TRUE
     ELSE UNCHANGED <<joint_state_subscriber_, tf_connection_,
                      state_monitor_started_>>
  /\ UNCHANGED <<now, wall, robot_state_, update_callbacks_,
                 state_update_lock_, jsVars, tfVars, qVars, wVars>>

\* startStateMonitor (lines 173-191); robot_model_ and tf_buffer_ are set
startStateMonitor(joint_states_topic) ==
  /\ last_call' = [op |-> "start", flip |-> ~last_call.flip]
  /\ IF ~state_monitor_started_
     THEN /\ joint_time_' = [j \in DOMAIN joint_time_ |-> NoEntry]
          /\ joint_state_subscriber_' =
               IF joint_states_topic = "" THEN joint_state_subscriber_
               ELSE joint_states_topic
          /\ tf_connection_' = (getMultiDOFJointModels # <<>>)
          /\ state_monitor_started_' = TRUE
     ELSE UNCHANGED <<joint_time_, joint_state_subscriber_, tf_connection_,
                      state_monitor_started_>>
  /\ UNCHANGED <<now, wall, robot_state_, update_callbacks_,
                 state_update_lock_, jsVars, tfVars, qVars, wVars>>

\* stopStateMonitor (lines 198-211)
stopStateMonitor ==
  /\ last_call' = [op |-> "stop", flip |-> ~last_call.flip]
  /\ IF state_monitor_started_
     THEN /\ joint_state_subscriber_' = ""
          /\ tf_connection_' = FALSE
          /\ state_monitor_started_' = FALSE
     ELSE UNCHANGED <<joint_state_subscriber_, tf_connection_,
                      state_monitor_started_>>
  /\ UNCHANGED <<now, wall, dataVars, update_callbacks_,
                 state_update_lock_, jsVars, tfVars, qVars, wVars>>

\* getMonitoredTopic (lines 213-219)
getMonitoredTopic == joint_state_subscriber_

\* state_update_condition_.notify_all(): every blocked waiter is signalled
NotifyAll == w_notified' = (w_notified \/ w_pc = "w_blocked")

\* an ingestion releases the lock: the update is committed
Commit ==
  w_qualified' = (w_qualified \/ (/\ w_pc = "w_blocked"
                                  /\ wall - w_start < w_timeout
                                  /\ getCurrentStateTimeHelper("") >= w_t))

\* ----------------------------------------------------- jointStateCallback
\* jointStateCallback without the scoped lock of line 333
JsLock_NoMutex(n, np, stamp) ==
  /\ js_pc = "idle"
  /\ joint_state_subscriber_ # ""
  /\ IF n # np
     THEN /\ js_pc' = "js_rejected"
          /\ UNCHANGED <<state_update_lock_, js_left, js_stamp, js_jm,
                         js_pos, js_update, js_k, js_calls>>
     ELSE /\ UNCHANGED state_update_lock_
          /\ js_pc' = "js_loop"
          /\ js_left' = n /\ js_stamp' = stamp
          /\ js_update' = FALSE
          /\ UNCHANGED <<js_jm, js_pos, js_k, js_calls>>
  /\ UNCHANGED <<now, wall, lifeVars, dataVars, update_callbacks_, tfVars,
                 qVars, wVars>>

\* lines 320-335: a message with n names and np positions arrives on the
\* subscription; the length check, then the lock is taken
JsLock(n, np, stamp) ==
  /\ js_pc = "idle"
  /\ joint_state_subscriber_ # ""
  /\ IF n # np
     THEN /\ js_pc' = "js_rejected"
          /\ UNCHANGED <<state_update_lock_, js_left, js_stamp, js_jm,
                         js_pos, js_update, js_k, js_calls>>
     ELSE /\ state_update_lock_ = "free"
          /\ state_update_lock_' = "js"
          /\ js_pc' = "js_loop"
          /\ js_left' = n /\ js_stamp' = stamp
          /\ js_update' = FALSE
          /\ UNCHANGED <<js_jm, js_pos, js_k, js_calls>>
  /\ UNCHANGED <<now, wall, lifeVars, dataVars, update_callbacks_, tfVars,
                 qVars, wVars>>

\* a length check that logs the error and goes on to the dispatch
JsReject_Dispatch ==
  /\ js_pc = "js_rejected"
  /\ js_pc' = "js_dispatch"
  /\ js_update' = TRUE
  /\ UNCHANGED <<now, wall, lifeVars, dataVars, update_callbacks_,
                 state_update_lock_, js_left, js_stamp, js_jm, js_pos, js_k,
                 js_calls, tfVars, qVars, wVars>>

\* lines 324-328: the message is rejected: an error is logged and the
\* callback returns
JsReject ==
  /\ js_pc = "js_rejected"
  /\ js_pc' = "idle"
  /\ UNCHANGED <<now, wall, lifeVars, dataVars, update_callbacks_,
                 state_update_lock_, js_left, js_stamp, js_jm, js_pos,
                 js_update, js_k, js_calls, tfVars, qVars, wVars>>

\* lines 336-398: one iteration of the loop, on entry (name, position)
JsEntry(name, position) ==
  /\ js_pc = "js_loop"
  /\ js_left > 0
  /\ js_left' = js_left - 1
  /\ js_jm' = IF name \in JointModels THEN name ELSE "null"
  /\ js_pos' = position
  /\ IF name \notin JointModels \/ getVariableCount(name) # 1
     THEN UNCHANGED <<dataVars, js_update>>
     ELSE /\ joint_time_' = UpdateJointTime(joint_time_, name, js_stamp)
          /\ robot_state_' = CommitPosition(robot_state_, name, position)
          /\ js_update' = (js_update \/ robot_state_[name] # position)
  /\ UNCHANGED <<now, wall, lifeVars, update_callbacks_, state_update_lock_,
                 js_pc, js_stamp, js_k, js_calls, tfVars, qVars, wVars>>

\* the block of the scoped lock reaching to the end of the function: the
\* callbacks are dispatched with the lock held
JsUnlock_KeepLock ==
  /\ js_pc = "js_loop"
  /\ js_left = 0
  /\ js_pc' = "js_dispatch"
  /\ js_k' = 0
  /\ js_jm' = "null" /\ js_pos' = 0
  /\ Commit
  /\ UNCHANGED <<now, wall, lifeVars, dataVars, update_callbacks_,
                 state_update_lock_, js_left, js_stamp, js_update, js_calls,
                 tfVars, qVars, wCore, w_notified>>

\* line 399: the scoped lock is released at the end of the block
JsUnlock ==
  /\ js_pc = "js_loop"
  /\ js_left = 0
  /\ state_update_lock_' = "free"
  /\ js_pc' = "js_dispatch"
  /\ js_k' = 0
  /\ js_jm' = "null" /\ js_pos' = 0
  /\ Commit
  /\ UNCHANGED <<now, wall, lifeVars, dataVars, update_callbacks_,
                 js_left, js_stamp, js_update, js_calls, tfVars, qVars,
                 wCore, w_notified>>

\* a dispatch that does not test the update flag
JsDispatch_Always ==
  /\ js_pc = "js_dispatch"
  /\ IF js_k < Len(update_callbacks_)
     THEN /\ js_pc' = "js_callback"
          /\ js_calls' = Append(js_calls, <<update_callbacks_[js_k + 1], js_stamp>>)
     ELSE /\ js_pc' = "js_notify"
          /\ UNCHANGED js_calls
  /\ UNCHANGED <<now, wall, lifeVars, dataVars, update_callbacks_,
                 state_update_lock_, js_left, js_stamp, js_jm, js_pos,
                 js_update, js_k, tfVars, qVars, wVars>>

\* lines 402-404: the next callback is invoked with the message, or the loop
\* is over
JsDispatch ==
  /\ js_pc = "js_dispatch"
  /\ IF js_update /\ js_k < Len(update_callbacks_)
     THEN /\ js_pc' = "js_callback"
          /\ js_calls' = Append(js_calls, <<update_callbacks_[js_k + 1], js_stamp>>)
     ELSE /\ js_pc' = "js_notify"
          /\ UNCHANGED js_calls
  /\ UNCHANGED <<now, wall, lifeVars, dataVars, update_callbacks_,
                 state_update_lock_, js_left, js_stamp, js_jm, js_pos,
                 js_update, js_k, tfVars, qVars, wVars>>

\* line 407
JsNotify ==
  /\ js_pc = "js_notify"
  /\ NotifyAll
  /\ js_pc' = "idle"
  /\ js_stamp' = 0 /\ js_update' = FALSE /\ js_k' = 0
  /\ js_calls' = <<>>
  /\ UNCHANGED <<now, wall, lifeVars, dataVars, update_callbacks_,
                 state_update_lock_, js_left, js_jm, js_pos, tfVars, qVars,
                 wCore, w_qualified>>

\* ------------------------------------------------------------- tfCallback
\* lines 410-418
TfLock ==
  /\ tf_pc = "idle"
  /\ tf_connection_
  /\ state_update_lock_ = "free"
  /\ state_update_lock_' = "tf"
  /\ tf_pc' = "tf_loop"
  /\ tf_i' = 0 /\ tf_update' = FALSE /\ tf_changes' = FALSE
  /\ UNCHANGED <<now, wall, lifeVars, dataVars, update_callbacks_, tf_k,
                 tf_ok, tf_time, tf_new, tf_calls, jsVars, qVars, wVars>>

\* joint->distance(new_values, current values)
distance(a, b) == Abs(a - b)

\* an iteration that also drops a static transform (stamp zero) when the
\* joint has a stamp already
TfEntry_DropStatic(ok, latest_common_time, new_values) ==
  /\ tf_pc = "tf_loop"
  /\ tf_i < Len(getMultiDOFJointModels)
  /\ tf_i' = tf_i + 1
  /\ tf_ok' = ok
  /\ tf_time' = IF ok THEN latest_common_time ELSE 0
  /\ tf_new' = IF ok THEN new_values ELSE 0
  /\ LET joint == getMultiDOFJointModels[tf_i + 1] IN
     IF ~ok
     THEN UNCHANGED <<dataVars, tf_update, tf_changes>>
     ELSE IF latest_common_time <= JointTimeAt(joint_time_, joint)[joint]
          THEN /\ joint_time_' = JointTimeAt(joint_time_, joint)
               /\ UNCHANGED <<robot_state_, tf_update, tf_changes>>
          ELSE /\ joint_time_' = [joint_time_ EXCEPT ![joint] = latest_common_time]
               /\ tf_changes' = (tf_changes \/
                    distance(new_values, robot_state_[joint]) > DistThreshold)
               /\ robot_state_' = [robot_state_ EXCEPT ![joint] = new_values]
               /\ tf_update' = TRUE
  /\ UNCHANGED <<now, wall, lifeVars, update_callbacks_, state_update_lock_,
                 tf_pc, tf_k, tf_calls, jsVars, qVars, wVars>>

\* lines 420-462: one iteration; lookupTransform fails (ok = FALSE) or gives a
\* transform with stamp latest_common_time that computeVariablePositions
\* turns into new_values
TfEntry(ok, latest_common_time, new_values) ==
  /\ tf_pc = "tf_loop"
  /\ tf_i < Len(getMultiDOFJointModels)
  /\ tf_i' = tf_i + 1
  /\ tf_ok' = ok
  /\ tf_time' = IF ok THEN latest_common_time ELSE 0
  /\ tf_new' = IF ok THEN new_values ELSE 0
  /\ LET joint == getMultiDOFJointModels[tf_i + 1] IN
     IF ~ok
     THEN UNCHANGED <<dataVars, tf_update, tf_changes>>
     ELSE IF /\ latest_common_time <= JointTimeAt(joint_time_, joint)[joint]
             /\ latest_common_time > 0
          THEN /\ joint_time_' = JointTimeAt(joint_time_, joint)
               /\ UNCHANGED <<robot_state_, tf_update, tf_changes>>
          ELSE /\ joint_time_' = [joint_time_ EXCEPT ![joint] = latest_common_time]
               /\ tf_changes' = (tf_changes \/
                    distance(new_values, robot_state_[joint]) > DistThreshold)
               /\ robot_state_' = [robot_state_ EXCEPT ![joint] = new_values]
               /\ tf_update' = TRUE
  /\ UNCHANGED <<now, wall, lifeVars, update_callbacks_, state_update_lock_,
                 tf_pc, tf_k, tf_calls, jsVars, qVars, wVars>>

\* line 463
TfUnlock ==
  /\ tf_pc = "tf_loop"
  /\ tf_i = Len(getMultiDOFJointModels)
  /\ state_update_lock_' = "free"
  /\ tf_pc' = "tf_dispatch"
  /\ tf_k' = 0
  /\ tf_ok' = FALSE /\ tf_time' = 0 /\ tf_new' = 0
  /\ Commit
  /\ UNCHANGED <<now, wall, lifeVars, dataVars, update_callbacks_,
                 tf_i, tf_update, tf_changes, tf_calls, jsVars, qVars, wCore,
                 w_notified>>

\* a dispatch on the update flag instead of the changes flag
TfDispatch_OnUpdate ==
  /\ tf_pc = "tf_dispatch"
  /\ IF tf_update /\ tf_k < Len(update_callbacks_)
     THEN /\ tf_pc' = "tf_callback"
          /\ tf_calls' = Append(tf_calls, <<update_callbacks_[tf_k + 1], 0>>)
     ELSE /\ tf_pc' = "tf_notify"
          /\ UNCHANGED tf_calls
  /\ UNCHANGED <<now, wall, lifeVars, dataVars, update_callbacks_,
                 state_update_lock_, tf_i, tf_update, tf_changes, tf_k,
                 tf_ok, tf_time, tf_new, jsVars, qVars, wVars>>

\* lines 466-473: the next callback is invoked with the stub message (a
\* default sensor_msgs::JointState: no names, stamp zero), or the loop is over
TfDispatch ==
  /\ tf_pc = "tf_dispatch"
  /\ IF tf_changes /\ tf_k < Len(update_callbacks_)
     THEN /\ tf_pc' = "tf_callback"
          /\ tf_calls' = Append(tf_calls, <<update_callbacks_[tf_k + 1], 0>>)
     ELSE /\ tf_pc' = "tf_notify"
          /\ UNCHANGED tf_calls
  /\ UNCHANGED <<now, wall, lifeVars, dataVars, update_callbacks_,
                 state_update_lock_, tf_i, tf_update, tf_changes, tf_k,
                 tf_ok, tf_time, tf_new, jsVars, qVars, wVars>>

\* lines 475-479
TfNotify ==
  /\ tf_pc = "tf_notify"
  /\ IF tf_update THEN NotifyAll ELSE UNCHANGED w_notified
  /\ tf_pc' = "idle"
  /\ tf_i' = 0 /\ tf_update' = FALSE /\ tf_changes' = FALSE /\ tf_k' = 0
  /\ tf_calls' = <<>>
  /\ UNCHANGED <<now, wall, lifeVars, dataVars, update_callbacks_,
                 state_update_lock_, tf_ok, tf_time, tf_new, jsVars, qVars,
                 wCore, w_qualified>>

\* -------------------------------------------------------------- callbacks
\* addUpdateCallback (lines 162-166); fn = "null" is an empty function
addUpdateCallback(fn) ==
  /\ update_callbacks_' = IF fn # "null" THEN Append(update_callbacks_, fn)
                          ELSE update_callbacks_
  /\ UNCHANGED <<now, wall, lifeVars, dataVars, state_update_lock_,
                 jsVars, tfVars, qVars, wVars>>

\* clearUpdateCallbacks (lines 168-171)
clearUpdateCallbacks ==
  /\ update_callbacks_' = <<>>
  /\ UNCHANGED <<now, wall, lifeVars, dataVars, state_update_lock_,
                 jsVars, tfVars, qVars, wVars>>

\* A callback that calls back into the monitor: getCurrentState (lines 72-77)
\* takes the lock, copies robot_state_ and releases the lock.
\* The callback invoked by jointStateCallback (line 404) takes the lock
JsCallbackLock ==
  /\ js_pc = "js_callback"
  /\ state_update_lock_ = "free"
  /\ state_update_lock_' = "js"
  /\ js_pc' = "js_cb_locked"
  /\ UNCHANGED <<now, wall, lifeVars, dataVars, update_callbacks_,
                 js_left, js_stamp, js_jm, js_pos, js_update, js_k,
                 js_calls, tfVars, qVars, wVars>>

\* ... and returns; the loop of line 403 goes on
JsCallbackReturn ==
  /\ js_pc = "js_cb_locked"
  /\ state_update_lock_' = "free"
  /\ js_k' = js_k + 1
  /\ js_pc' = "js_dispatch"
  /\ UNCHANGED <<now, wall, lifeVars, dataVars, update_callbacks_,
                 js_left, js_stamp, js_jm, js_pos, js_update, js_calls,
                 tfVars, qVars, wVars>>

\* the callback invoked by tfCallback (line 472) takes the lock
TfCallbackLock ==
  /\ tf_pc = "tf_callback"
  /\ state_update_lock_ = "free"
  /\ state_update_lock_' = "tf"
  /\ tf_pc' = "tf_cb_locked"
  /\ UNCHANGED <<now, wall, lifeVars, dataVars, update_callbacks_,
                 tf_i, tf_update, tf_changes, tf_k, tf_ok, tf_time, tf_new,
                 tf_calls, jsVars, qVars, wVars>>

TfCallbackReturn ==
  /\ tf_pc = "tf_cb_locked"
  /\ state_update_lock_' = "free"
  /\ tf_k' = tf_k + 1
  /\ tf_pc' = "tf_dispatch"
  /\ UNCHANGED <<now, wall, lifeVars, dataVars, update_callbacks_,
                 tf_i, tf_update, tf_changes, tf_ok, tf_time, tf_new,
                 tf_calls, jsVars, qVars, wVars>>

\* ------------------------------------------------- getCurrentStateAndTime
\* line 121
QueryLock(group) ==
  /\ q_pc = "idle"
  /\ state_update_lock_ = "free"
  /\ state_update_lock_' = "q"
  /\ q_pc' = "q_locked"
  /\ q_group' = group
  /\ UNCHANGED <<now, wall, lifeVars, dataVars, update_callbacks_,
                 jsVars, tfVars, q_state, q_time, q_seen, wVars>>

\* line 122: the copy of robot_state_
QueryCopy ==
  /\ q_pc = "q_locked"
  /\ q_state' = robot_state_
  /\ q_seen' = joint_time_
  /\ q_pc' = "q_copied"
  /\ UNCHANGED <<now, wall, lifeVars, dataVars, update_callbacks_,
                 state_update_lock_, jsVars, tfVars, q_group, q_time, wVars>>

\* line 123: getCurrentStateTimeHelper(group)
QueryTime ==
  /\ q_pc = "q_copied"
  /\ q_time' = getCurrentStateTimeHelper(q_group)
  /\ q_pc' = "q_timed"
  /\ UNCHANGED <<now, wall, lifeVars, dataVars, update_callbacks_,
                 state_update_lock_, jsVars, tfVars, q_group, q_state, q_seen,
                 wVars>>

\* line 124: the pair is returned to the caller and the lock released
QueryUnlock ==
  /\ q_pc = "q_timed"
  /\ state_update_lock_' = "free"
  /\ q_pc' = "idle"
  /\ q_group' = "" /\ q_time' = 0
  /\ q_state' = [j \in DOMAIN robot_state_ |-> 0]
  /\ q_seen' = [j \in DOMAIN joint_time_ |-> NoEntry]
  /\ UNCHANGED <<now, wall, lifeVars, dataVars, update_callbacks_,
                 jsVars, tfVars, wVars>>

\* ---------------------------------------------------- waitForCurrentState
TickWall(limit) ==
  /\ wall < limit
  /\ wall' = wall + 1
  /\ UNCHANGED <<now, lifeVars, dataVars, update_callbacks_,
                 state_update_lock_, jsVars, tfVars, qVars, wVars>>

\* lines 268-271
WaitLock(t, wait_time) ==
  /\ w_pc = "idle"
  /\ state_update_lock_ = "free"
  /\ state_update_lock_' = "w"
  /\ w_t' = t /\ w_timeout' = wait_time
  /\ w_start' = wall /\ w_elapsed' = 0
  /\ w_pc' = "w_check"
  /\ UNCHANGED <<now, wall, lifeVars, dataVars, update_callbacks_,
                 jsVars, tfVars, qVars, w_deadline, w_result, w_oldest,
                 w_notified, w_qualified>>

\* line 272 and, when the predicate fails, the start of wait_for (line 274),
\* which releases the lock and blocks; line 285 otherwise
WaitCheck ==
  /\ w_pc = "w_check"
  /\ state_update_lock_' = "free"
  /\ IF getCurrentStateTimeHelper("") < w_t
     THEN /\ w_pc' = "w_blocked"
          /\ w_deadline' = wall + (w_timeout - w_elapsed)
          /\ w_notified' = FALSE
          /\ UNCHANGED <<w_result, w_oldest>>
     ELSE /\ w_pc' = "w_done"
          /\ w_result' = TRUE
          /\ w_oldest' = getCurrentStateTimeHelper("")
          /\ UNCHANGED <<w_deadline, w_notified>>
  /\ UNCHANGED <<now, wall, lifeVars, dataVars, update_callbacks_,
                 jsVars, tfVars, qVars, w_t, w_timeout, w_start, w_elapsed,
                 w_qualified>>

\* wait_for wakes: notified, or its duration has passed
WaitWake ==
  /\ w_pc = "w_blocked"
  /\ w_notified \/ wall >= w_deadline
  /\ w_pc' = "w_woken"
  /\ w_notified' = FALSE
  /\ UNCHANGED <<now, wall, lifeVars, dataVars, update_callbacks_,
                 state_update_lock_, jsVars, tfVars, qVars,
                 w_t, w_timeout, w_start, w_elapsed, w_deadline, w_result,
                 w_oldest, w_qualified>>

\* wait_for may also wake spuriously
WaitSpuriousWake ==
  /\ w_pc = "w_blocked"
  /\ ~(w_notified \/ wall >= w_deadline)
  /\ w_pc' = "w_woken"
  /\ UNCHANGED <<now, wall, lifeVars, dataVars, update_callbacks_,
                 state_update_lock_, jsVars, tfVars, qVars,
                 w_t, w_timeout, w_start, w_elapsed, w_deadline, w_result,
                 w_oldest, w_notified, w_qualified>>

\* wait_for takes the lock again and returns; lines 275-283
WaitReacquire ==
  /\ w_pc = "w_woken"
  /\ state_update_lock_ = "free"
  /\ w_elapsed' = wall - w_start
  /\ IF wall - w_start > w_timeout
     THEN /\ w_pc' = "w_done"
          /\ w_result' = FALSE
          /\ w_oldest' = getCurrentStateTimeHelper("")
          /\ UNCHANGED state_update_lock_
     ELSE /\ w_pc' = "w_check"
          /\ state_update_lock_' = "w"
          /\ UNCHANGED <<w_result, w_oldest>>
  /\ UNCHANGED <<now, wall, lifeVars, dataVars, update_callbacks_,
                 jsVars, tfVars, qVars, w_t, w_timeout, w_start, w_deadline,
                 w_notified, w_qualified>>

\* ---------------------------------------------------------- specification
\* the entries a message can hold: every position for the bounded joint,
\* the largest position for the continuous joint, one position for the names
\* the loop skips
Entries == ({"A"} \X PosValues) \cup ({"B"} \X {HighPos})
             \cup ({"M", "X"} \X {0})

\* Spec: the two ingestion handlers run one after the other, each to its end

Next ==
  \/ TickNow
  \/ ~state_monitor_started_ /\ startStateMonitor("joint_states")
  \/ \E n \in 0..MaxLen, np \in 0..MaxLen, stamp \in Times :
       tf_pc = "idle" /\ JsLock(n, np, stamp)
  \/ JsReject
  \/ \E e \in Entries : JsEntry(e[1], e[2])
  \/ JsUnlock
  \/ JsDispatch
  \/ JsNotify
  \/ js_pc = "idle" /\ TfLock
  \/ \E ok \in BOOLEAN, t \in Times, v \in PoseValues : TfEntry(ok, t, v)
  \/ TfUnlock
  \/ TfDispatch
  \/ TfNotify

Spec == Init /\ [][Next]_vars

\* SpecConc: the ingestion threads, a querying thread and the callbacks
\* interleave at every step; fewer message contents.  The callbacks are
\* registered before the monitor is started, and it is started before the
\* first query.
MaxCallbacks == 1
ConcStamps == Times
ConcEntries == {<<"A", max_position_>>, <<"B", HighPos>>, <<"X", 0>>}

NextConc ==
  \/ TickNow
  \/ /\ q_pc = "idle" /\ Len(update_callbacks_) = MaxCallbacks
     /\ ~state_monitor_started_
     /\ startStateMonitor("joint_states")
  \/ \E fn \in {"null", "cb"} :
       Len(update_callbacks_) < MaxCallbacks /\ addUpdateCallback(fn)
  \/ \E n \in 1..MaxLen, stamp \in ConcStamps : JsLock(n, n, stamp)
  \/ \E e \in ConcEntries : JsEntry(e[1], e[2])
  \/ JsUnlock
  \/ JsDispatch
  \/ JsCallbackLock
  \/ JsCallbackReturn
  \/ JsNotify
  \/ TfLock
  \/ \E ok \in BOOLEAN, t \in ConcStamps : TfEntry(ok, t, DistThreshold + 1)
  \/ TfUnlock
  \/ TfDispatch
  \/ TfCallbackLock
  \/ TfCallbackReturn
  \/ TfNotify
  \/ \E group \in {"", "arm"} :
       state_monitor_started_ /\ QueryLock(group)
  \/ QueryCopy
  \/ QueryTime
  \/ QueryUnlock

SpecConc == Init /\ [][NextConc]_vars

\* SpecWait: the ingestion threads and a thread in waitForCurrentState
MaxWall == 2
WaitStamps == Times \ {0}

NextWait ==
  \/ TickNow
  \/ TickWall(MaxWall)
  \/ ~state_monitor_started_ /\ startStateMonitor("joint_states")
  \/ \E n \in 1..MaxLen, stamp \in WaitStamps : JsLock(n, n, stamp)
  \/ \E e \in {<<"A", max_position_>>, <<"B", HighPos>>} : JsEntry(e[1], e[2])
  \/ JsUnlock
  \/ JsDispatch
  \/ JsNotify
  \/ TfLock
  \/ TfEntry(TRUE, 0, DistThreshold + 1)
  \/ TfUnlock
  \/ TfDispatch
  \/ TfNotify
  \/ \E t \in WaitStamps, wait_time \in {1} : WaitLock(t, wait_time)
  \/ WaitCheck
  \/ WaitWake
  \/ WaitSpuriousWake
  \/ WaitReacquire

SpecWait == Init /\ [][NextWait]_vars

\* SpecDispatch: the ingestion handlers run one after the other, with up to
\* two registered callbacks and a thread in waitForCurrentState whose timeout
\* does not elapse; the callbacks are registered and cleared between two
\* handler runs (update_callbacks_ is not synchronised)
CallbackNames == {"cb1", "cb2"}
DispatchEntries == ({"A"} \X {min_position_, max_position_,
                               max_position_ + error_, HighPos})
                     \cup {<<"X", 0>>}
HandlersIdle == js_pc = "idle" /\ tf_pc = "idle"

NextDispatch ==
  \/ ~state_monitor_started_ /\ startStateMonitor("joint_states")
  \/ \E fn \in CallbackNames \cup {"null"} :
       /\ HandlersIdle /\ Len(update_callbacks_) < MaxCallbacks + 1
       /\ addUpdateCallback(fn)
  \/ HandlersIdle /\ update_callbacks_ # <<>> /\ clearUpdateCallbacks
  \/ \E n \in 1..MaxLen, stamp \in Times \ {0} :
       tf_pc = "idle" /\ JsLock(n, n, stamp)
  \/ \E e \in DispatchEntries : JsEntry(e[1], e[2])
  \/ JsUnlock
  \/ JsDispatch
  \/ JsCallbackLock
  \/ JsCallbackReturn
  \/ JsNotify
  \/ js_pc = "idle" /\ TfLock
  \/ \E ok \in BOOLEAN, t \in Times, v \in PoseValues : TfEntry(ok, t, v)
  \/ TfUnlock
  \/ TfDispatch
  \/ TfCallbackLock
  \/ TfCallbackReturn
  \/ TfNotify
  \/ WaitLock(MaxTime, 1)
  \/ WaitCheck
  \/ WaitWake
  \/ WaitReacquire

SpecDispatch == Init /\ [][NextDispatch]_vars

\* SpecLife: the monitor is started (with any topic name) and stopped again
\* and again, between two runs of the ingestion handlers, which run one
\* after the other
NextLife ==
  \/ \E joint_states_topic \in Topics :
       HandlersIdle /\ startStateMonitor(joint_states_topic)
  \/ HandlersIdle /\ stopStateMonitor
  \/ TickNow
  \/ \E n \in 1..MaxLen, stamp \in Times :
       tf_pc = "idle" /\ JsLock(n, n, stamp)
  \/ \E e \in ConcEntries : JsEntry(e[1], e[2])
  \/ JsUnlock
  \/ JsDispatch
  \/ JsNotify
  \/ js_pc = "idle" /\ TfLock
  \/ \E ok \in BOOLEAN, t \in Times : TfEntry(ok, t, DistThreshold + 1)
  \/ TfUnlock
  \/ TfDispatch
  \/ TfNotify

SpecLife == Init /\ [][NextLife]_vars

\* ================================================================ claims
\* the loop of jointStateCallback has just processed an entry of joint jm
JustProcessed(jm) == js_pc = "js_loop" /\ js_jm = jm

\* the step is one iteration of the loop of jointStateCallback on joint jm
EntryStepOn(jm) == js_pc = "js_loop" /\ js_left' = js_left - 1 /\ js_jm' = jm

KnownGroups == GroupNames \ {"nogroup"}
JointSetOf(group) == {ActiveJointsOf(group)[k] : k \in 1..Len(ActiveJointsOf(group))}
SetMin(S) == CHOOSE x \in S : \A y \in S : x <= y
SingleJointGroup(jm) == IF jm = "A" THEN "a" ELSE "b"

\* C1: every accepted entry (known joint, one variable) of a joint report
\* either resets the Ledger or touches its own entry only.  If the batch
\* stamp is not strictly greater than the stamp the code reads for the joint
\* (joint_time_[jm]: the stored stamp, ros::Time() for a joint without an
\* entry), afterwards the Ledger holds this joint's entry alone, at the batch
\* stamp; otherwise this joint's entry is the batch stamp and every other
\* entry is as before.
C1_ResetOrOwnEntry ==
  [][\A jm \in SingleVarJoints :
       EntryStepOn(jm) =>
         LET current == IF joint_time_[jm] = NoEntry THEN 0 ELSE joint_time_[jm] IN
         IF ~(js_stamp > current)
         THEN joint_time_' = [j \in DOMAIN joint_time_ |->
                                IF j = jm THEN js_stamp ELSE NoEntry]
         ELSE joint_time_' = [j \in DOMAIN joint_time_ |->
                                IF j = jm THEN js_stamp ELSE joint_time_[j]]]_vars

\* C1 witness: an entry of A has just reset the Ledger: B and M were updated
\* since the start (their values left the defaults) and have no entry now
C1_Witness ==
  /\ JustProcessed("A")
  /\ joint_time_["A"] = js_stamp
  /\ joint_time_["B"] = NoEntry /\ robot_state_["B"] # 0
  /\ joint_time_["M"] = NoEntry /\ robot_state_["M"] # 0

\* C2: an entry for a joint that has no Ledger entry is newer than "never
\* updated" whatever its stamp: it adds the joint's entry and keeps every
\* other entry (so the scenario ends with A=0, B=0 and isComplete({A,B})).
C2_AbsentJointNeverResets ==
  [][\A jm \in SingleVarJoints :
       (EntryStepOn(jm) /\ joint_time_[jm] = NoEntry) =>
         joint_time_' = [joint_time_ EXCEPT ![jm] = js_stamp]]_vars

\* C3 (as claimed): the cached value of the bounded single-variable joint is
\* always within [min, max].
C3_AlwaysWithinBounds ==
  robot_state_["A"] >= min_position_ /\ robot_state_["A"] <= max_position_

\* C3 (amended): the cached value of the bounded single-variable joint is
\* never in one of the tolerance bands [min-eps, min) and (max, max+eps]: it
\* is within [min, max] or outside the bounds by more than eps.
C3_NeverInToleranceBand ==
  /\ ~(robot_state_["A"] < min_position_
       /\ robot_state_["A"] >= min_position_ - error_)
  /\ ~(robot_state_["A"] > max_position_
       /\ robot_state_["A"] <= max_position_ + error_)

\* C3 witness: a report has put A outside the bounds by more than eps
C3_Witness ==
  JustProcessed("A") /\ robot_state_["A"] > max_position_ + error_

\* C4: the committed value of an entry with raw value v: for the bounded
\* joint, min when min-eps <= v < min, max when max < v <= max+eps, v in
\* every other case; for the continuous joint always v.
C4_CommittedValue ==
  /\ JustProcessed("A") =>
       robot_state_["A"] =
         (CASE js_pos >= min_position_ - error_ /\ js_pos < min_position_
                 -> min_position_
            [] js_pos > max_position_ /\ js_pos <= max_position_ + error_
                 -> max_position_
            [] OTHER -> js_pos)
  /\ JustProcessed("B") => robot_state_["B"] = js_pos

\* C4 witness: a raw value in the upper tolerance band was committed as max
C4_Witness ==
  /\ JustProcessed("A") /\ js_pos = max_position_ + error_
  /\ robot_state_["A"] = max_position_

\* C5 (as claimed): after a batch with stamp T whose last entry is for joint
\* J (a batch for J alone is one), oldestUpdateTime over {J} is T, for
\* every T.
C5_OldestIsBatchStamp ==
  \A jm \in SingleVarJoints :
    (JustProcessed(jm) /\ js_left = 0) =>
      getCurrentStateTimeHelper(SingleJointGroup(jm)) = js_stamp

\* C5 (amended): after a batch with stamp T whose last entry is for joint J,
\* oldestUpdateTime over {J} is T when 0 < T <= the current time, and the
\* current time when T = 0 or T is later than the current time.
C5_OldestIsStampUpToClock ==
  \A jm \in SingleVarJoints :
    (JustProcessed(jm) /\ js_left = 0) =>
      getCurrentStateTimeHelper(SingleJointGroup(jm)) =
        (IF js_stamp = 0 \/ js_stamp > now THEN now ELSE js_stamp)

\* C5 witness: the first batch since the start, for A alone, with a stamp
\* between zero and the clock
C5_Witness ==
  /\ JustProcessed("A") /\ js_left = 0 /\ js_stamp > 0 /\ js_stamp < now
  /\ joint_time_["B"] = NoEntry /\ robot_state_["B"] = 0
  /\ getCurrentStateTimeHelper("a") = js_stamp

\* C6 (as claimed): oldestUpdateTime is zero when a joint of the subset has
\* no entry, and otherwise the minimum of the subset's non-zero stamps.
C6_OldestIsMinimum ==
  \A group \in KnownGroups :
    LET joints == JointSetOf(group)
        nonzero == {joint_time_[j] : j \in joints} \ {NoEntry, 0} IN
    IF \E j \in joints : joint_time_[j] = NoEntry
    THEN getCurrentStateTimeHelper(group) = 0
    ELSE nonzero # {} => getCurrentStateTimeHelper(group) = SetMin(nonzero)

\* C6 (amended): oldestUpdateTime is zero when a joint of the subset has no
\* entry, and otherwise the minimum of the current time and the subset's
\* non-zero stamps (the current time when every stamp is zero).
C6_OldestIsMinimumWithClock ==
  \A group \in KnownGroups :
    LET joints == JointSetOf(group)
        nonzero == {joint_time_[j] : j \in joints} \ {NoEntry, 0} IN
    IF \E j \in joints : joint_time_[j] = NoEntry
    THEN getCurrentStateTimeHelper(group) = 0
    ELSE getCurrentStateTimeHelper(group) = SetMin(nonzero \cup {now})

\* C6 witness: every joint has an entry, one of them zero, and the oldest
\* non-zero stamp is older than the clock
C6_Witness ==
  /\ joint_time_["M"] = 0 /\ joint_time_["A"] = 1 /\ joint_time_["B"] = 2
  /\ now = 2
  /\ getCurrentStateTimeHelper("") = 1

\* C7: isComplete(subset, t) is true iff every joint of the subset has an
\* entry not older than t; the collecting variant, given an empty list,
\* lists exactly the joints without an entry or with an older one, and
\* returns true iff the list is empty.
C7_CompleteIffAllFresh ==
  \A group \in KnownGroups, t \in 0..(MaxTime + 1) :
    LET joints == ActiveJointsOf(group)
        stale(j) == joint_time_[j] = NoEntry \/ joint_time_[j] < t
        plain == haveCompleteStateHelper(t, FALSE, <<>>, group)
        listed == haveCompleteStateHelper(t, TRUE, <<>>, group) IN
    /\ plain.ret = (\A k \in 1..Len(joints) : ~stale(joints[k]))
    /\ {listed.missing[k] : k \in 1..Len(listed.missing)}
         = {j \in JointSetOf(group) : stale(j)}
    /\ Len(listed.missing) = Cardinality({j \in JointSetOf(group) : stale(j)})
    /\ listed.ret = (listed.missing = <<>>)

\* C7 witness: of the joints of the model one is fresh, one is older than the
\* allowed time and one has no entry
C7_Witness ==
  /\ joint_time_["A"] = 2 /\ joint_time_["B"] = 1 /\ joint_time_["M"] = NoEntry
  /\ haveCompleteStateHelper(2, TRUE, <<>>, "").missing = <<"B", "M">>
  /\ haveCompleteStateHelper(2, FALSE, <<>>, "a").ret

\* a thread other than an ingestion loop is inside a critical section and
\* reads robot_state_ or joint_time_
Reading ==
  \/ q_pc \in {"q_locked", "q_copied", "q_timed"}
  \/ js_pc = "js_cb_locked"
  \/ tf_pc = "tf_cb_locked"

\* an ingestion event has taken the lock and not yet released it
MidBatch == js_pc = "js_loop" \/ tf_pc = "tf_loop"

\* C8: a query (from a querying thread or from a callback) never reads while
\* an ingestion event is under way, and getCurrentStateAndTime computes its
\* time from the very joint_time_ and robot_state_ its copy was taken from.
C8_QueriesSeeWholeEvents ==
  /\ Reading => ~MidBatch
  /\ q_pc \in {"q_copied", "q_timed"} =>
       q_state = robot_state_ /\ q_seen = joint_time_

\* C8 witness: a query has its pair, taken after a joint report and a pose
\* were ingested, while the joint-report thread is dispatching a callback
C8_Witness ==
  /\ q_pc = "q_timed"
  /\ q_state["A"] = max_position_ /\ q_seen["A"] # NoEntry
  /\ q_seen["M"] # NoEntry
  /\ js_pc = "js_callback"

\* C9 (as claimed): no thread holds the state lock while a callback runs.
C9_LockFreeWhileCallbackRuns ==
  (js_pc = "js_callback" \/ tf_pc = "tf_callback") => state_update_lock_ = "free"

\* C9 (amended): an ingestion thread does not hold the state lock from the
\* end of its critical section on, while it dispatches callbacks and
\* notifies (another thread may hold it), so a callback that calls back into
\* the monitor is never blocked by its own thread: some thread can take a
\* step.
C9_DispatcherHoldsNoLock ==
  /\ js_pc \in {"js_dispatch", "js_callback", "js_notify"} =>
       state_update_lock_ # "js"
  /\ tf_pc \in {"tf_dispatch", "tf_callback", "tf_notify"} =>
       state_update_lock_ # "tf"
  /\ (js_pc = "js_callback" \/ tf_pc = "tf_callback") =>
       \/ state_update_lock_ = "free"
       \/ state_update_lock_ = "q" /\ q_pc \in {"q_locked", "q_copied", "q_timed"}
       \/ state_update_lock_ = "js" /\ js_pc \in {"js_loop", "js_cb_locked"}
       \/ state_update_lock_ = "tf" /\ tf_pc \in {"tf_loop", "tf_cb_locked"}

\* C9 witness: a callback dispatched by jointStateCallback has called back
\* into the monitor and holds the lock, while tfCallback waits with a callback
\* of its own
C9_Witness ==
  /\ js_pc = "js_cb_locked" /\ state_update_lock_ = "js"
  /\ tf_pc = "tf_callback"

\* C10: a waiter that was blocked when an ingestion committed an update that
\* made the oldest update time >= t before the timeout had elapsed returns
\* true (here: given that the oldest update time is still >= t when it
\* returns).
C10_QualifiedWaiterReturnsTrue ==
  (w_pc = "w_done" /\ w_qualified /\ w_oldest >= w_t) => w_result = TRUE

\* every registered callback, in registration order, with message msg
AllCallbacksWith(msg) ==
  [k \in 1..Len(update_callbacks_) |-> <<update_callbacks_[k], msg>>]

\* the step is one iteration of the loop of jointStateCallback
JsEntryStep == js_pc = "js_loop" /\ js_left' = js_left - 1

\* C11: a joint report counts as an update as soon as an accepted entry's
\* value differs from the cached value; when jointStateCallback notifies the
\* waiters, it has invoked every registered callback exactly once with the
\* batch, in registration order, if the batch was an update and no callback
\* otherwise; it signals the blocked waiter at that step and at no earlier
\* step of the run.
C11_JsDispatchOnUpdate ==
  [][/\ JsEntryStep =>
          js_update' = (js_update \/ \E jm \in SingleVarJoints :
                                       js_jm' = jm /\ robot_state_[jm] # js_pos')
     /\ (js_pc = "js_notify" /\ js_pc' = "idle") =>
          /\ js_calls = (IF js_update THEN AllCallbacksWith(js_stamp) ELSE <<>>)
          /\ w_pc = "w_blocked" => w_notified'
     /\ (js_pc \notin {"idle", "js_notify"} /\ jsVars' # jsVars) =>
          w_notified' = w_notified]_vars

\* C11 witness: two different callbacks, both invoked in registration order
\* with the batch, and the waiter still blocked and not yet signalled
C11_Witness ==
  /\ js_pc = "js_notify" /\ js_update
  /\ update_callbacks_ = <<"cb2", "cb1">>
  /\ js_calls = <<<<"cb2", js_stamp>>, <<"cb1", js_stamp>>>>
  /\ w_pc = "w_blocked" /\ ~w_notified

\* the step is a call of startStateMonitor (op = "start") or of
\* stopStateMonitor (op = "stop")
LifeCall(op) == last_call' # last_call /\ last_call'.op = op

\* C12: startStateMonitor called while stopped clears the Ledger, keeps the
\* Configuration and makes the monitor started; called while started it
\* changes nothing.  stopStateMonitor called while started makes the monitor
\* stopped and releases the joint-report subscription and the TF listener,
\* keeping the Ledger and the Configuration; called while stopped it changes
\* nothing.
C12_Lifecycle ==
  [][/\ LifeCall("start") =>
          /\ robot_state_' = robot_state_
          /\ IF ~state_monitor_started_
             THEN /\ joint_time_' = [j \in DOMAIN joint_time_ |-> NoEntry]
                  /\ state_monitor_started_'
             ELSE UNCHANGED <<joint_time_, state_monitor_started_,
                              joint_state_subscriber_, tf_connection_>>
     /\ LifeCall("stop") =>
          /\ UNCHANGED <<joint_time_, robot_state_>>
          /\ IF state_monitor_started_
             THEN /\ ~state_monitor_started_'
                  /\ joint_state_subscriber_' = ""
                  /\ ~tf_connection_'
             ELSE UNCHANGED <<state_monitor_started_, joint_state_subscriber_,
                              tf_connection_>>
     /\ (LifeCall("start") \/ LifeCall("stop")) =>
          UNCHANGED <<update_callbacks_, state_update_lock_, jsVars, tfVars>>]_vars

\* C12 witness: the monitor was started again after a stop: the Ledger is
\* empty and the values ingested before the stop are still cached
C12_Witness ==
  /\ last_call.op = "start"
  /\ state_monitor_started_
  /\ \A j \in DOMAIN joint_time_ : joint_time_[j] = NoEntry
  /\ robot_state_["A"] # 0 /\ robot_state_["M"] # 0

\* the step is one iteration of the loop of tfCallback
TfEntryStep == tf_pc = "tf_loop" /\ tf_i' = tf_i + 1

C14_MismatchRejected ==
  [][(js_pc' # js_pc /\ (js_pc' = "js_rejected" \/ js_pc = "js_rejected")) =>
       /\ js_pc = "js_rejected" => js_pc' = "idle"
       /\ js_pc' = "js_rejected" => js_pc = "idle"
       /\ UNCHANGED <<lifeVars, dataVars, update_callbacks_, state_update_lock_,
                      js_left, js_stamp, js_jm, js_pos, js_update, js_k,
                      js_calls, tfVars, qVars, wVars>>]_vars

\* C14 witness: a report is being rejected while the Ledger and the
\* Configuration hold ingested values
C14_Witness ==
  /\ js_pc = "js_rejected"
  /\ joint_time_["A"] = 1 /\ robot_state_["A"] = max_position_
  /\ joint_time_["M"] = 2

\* the iteration of tfCallback made by this step accepts the pose it looked up
TfAcceptedStep ==
  /\ tf_ok'
  /\ \/ tf_time' = 0
     \/ joint_time_[getMultiDOFJointModels[tf_i']] = NoEntry
     \/ tf_time' > joint_time_[getMultiDOFJointModels[tf_i']]

\* C15: a run of tfCallback counts as an update as soon as a pose is
\* accepted, and as a change as soon as an accepted pose differs from the
\* joint's previous values by more than the distance threshold.  When the run
\* ends it has invoked every registered callback exactly once with the stub
\* message, in registration order, if it was a change, and no callback
\* otherwise; it signals the blocked waiter at its last step if and only if
\* it was an update, and at no earlier step.
C15_TfDispatchOnChange ==
  [][/\ TfEntryStep =>
          /\ tf_update' = (tf_update \/ TfAcceptedStep)
          /\ tf_changes' =
               (tf_changes \/
                 (/\ TfAcceptedStep
                  /\ Abs(tf_new' - robot_state_[getMultiDOFJointModels[tf_i']])
                       > DistThreshold))
     /\ (tf_pc = "tf_notify" /\ tf_pc' = "idle") =>
          /\ tf_calls = (IF tf_changes THEN AllCallbacksWith(0) ELSE <<>>)
          /\ w_pc = "w_blocked" => w_notified' = (w_notified \/ tf_update)
     /\ (tf_pc \notin {"idle", "tf_notify"} /\ tfVars' # tfVars) =>
          w_notified' = w_notified]_vars

\* C15 witness: a pose was accepted that is within the threshold of the
\* previous values: with a callback registered none was invoked, and the
\* blocked waiter is about to be signalled
C15_Witness ==
  /\ tf_pc = "tf_notify" /\ tf_update /\ ~tf_changes
  /\ update_callbacks_ # <<>> /\ tf_calls = <<>>
  /\ robot_state_["M"] = DistThreshold
  /\ w_pc = "w_blocked" /\ ~w_notified

\* C16: when the loop of jointStateCallback has read the last entry of a batch
\* with stamp T, the joint of that entry and the joint of the entry read just
\* before it in the same batch (both known, with one variable) have the
\* Ledger entry T.
C16_BatchJointsAtStamp ==
  [][\A jm \in SingleVarJoints, prev \in SingleVarJoints :
       (EntryStepOn(jm) /\ js_jm = prev /\ js_left' = 0) =>
         joint_time_'[prev] = js_stamp /\ joint_time_'[jm] = js_stamp]_vars

\* C17: a batch invokes the registered callbacks only if it has changed the
\* Configuration.  Stated on the last entry of a batch none of whose earlier
\* entries was an update (so the Configuration is still the one before the
\* batch): if that entry makes the batch an update, for which the callbacks
\* are invoked, the Configuration after it differs from the one before.
C17_CallbacksOnlyOnChange ==
  [][\A jm \in SingleVarJoints :
       (/\ EntryStepOn(jm) /\ js_left' = 0
        /\ ~js_update /\ js_update'
        /\ update_callbacks_ # <<>>) =>
         robot_state_' # robot_state_]_vars

\* C18: when waitForCurrentState returns, its result says whether the oldest
\* update time over all active joints is >= t at that moment: true only if
\* it is, false only if it is not.
C18_ResultIsPredicate ==
  w_pc = "w_done" => (w_result = (w_oldest >= w_t))

\* C19: for every joint subset and every time t > 0, if oldestUpdateTime of
\* the subset is >= t then isComplete(subset, t) is true.
C19_FreshnessQueriesAgree ==
  \A group \in KnownGroups, t \in 1..(MaxTime + 1) :
    getCurrentStateTimeHelper(group) >= t =>
      haveCompleteStateHelper(t, FALSE, <<>>, group).ret

\* C20: a started monitor is subscribed to a joint-report topic with a
\* non-empty name, which getMonitoredTopic returns; for a stopped monitor
\* getMonitoredTopic returns the empty string.
C20_StartedIsSubscribed ==
  /\ state_monitor_started_ =>
       joint_state_subscriber_ # "" /\ getMonitoredTopic = joint_state_subscriber_
  /\ ~state_monitor_started_ => getMonitoredTopic = ""

====
